---- MODULE Spec2Model ----
(***************************************************************************)
(* A model of sudoku-rs: the SudokuGrid data model (src/src/grid.rs), the  *)
(* BitManip operations on the u32 candidate mask (src/src/bitmanip.rs) and *)
(* the recursive backtracking solver (src/src/main.rs).                    *)
(*                                                                         *)
(* Rust vectors are modelled as TLA+ sequences; the Rust index i is the    *)
(* TLA+ index i + 1 (see At / Put).  A u32 used as a bit set is modelled   *)
(* as the set of its set bit positions, a subset of 0..U32Bits-1.          *)
(***************************************************************************)
EXTENDS Integers, Sequences, FiniteSets, TLC

VARIABLES
    raw,      \* the Vec<u32> handed to try_from (never changed afterwards)
    res,      \* outcome of construction: "none", "Ok", "NonSquare", "DigitOutOfRange"
    sudoku,   \* the SudokuGrid: [tiles, cell_width, row_width]
    stack,    \* the call stack of solve_rec, innermost frame last
    ret,      \* value being returned by the innermost finished solve_rec call
    state,    \* value returned by solve: "none" until solve has returned
    out,      \* what the last accessor call on the grid did
    writes    \* number of coordinate writes made so far

vars == <<raw, res, sudoku, stack, ret, state, out, writes>>

(***************************************************************************)
(* Bounds of the model.                                                    *)
(***************************************************************************)
MaxLen == 17      \* longest uniform input vector
MaxVal == 5       \* largest value in a uniform input vector
MaxGivens == 4    \* a sparse 4x4 input keeps at most this many cells of a base grid
MaxBlanks == 3    \* a dense 4x4 input blanks at most this many cells of a base grid
MaxWrites == 1    \* coordinate writes per run of WriteSpec

U32Bits == 32     \* width of the candidate mask `bad: u32`
NoTile == -1      \* Option<usize>::None for next_tile

Min(a, b) == IF a < b THEN a ELSE b

(***************************************************************************)
(* Slices and the iterator adaptors grid.rs composes.                      *)
(***************************************************************************)
At(s, i) == s[i + 1]
Put(s, i, v) == [s EXCEPT ![i + 1] = v]

\* slice[from..to]
Slice(s, from, to) == IF to <= from THEN << >> ELSE SubSeq(s, from + 1, to)

\* slice.chunks(n): consecutive pieces of n elements, the last one maybe shorter
Chunks(s, n) ==
    [k \in 1..((Len(s) + n - 1) \div n) |-> Slice(s, (k - 1) * n, Min(k * n, Len(s)))]

\* iter.skip(n)
Skip(s, n) == Slice(s, Min(n, Len(s)), Len(s))

\* iter.step_by(n): the first element, then every n-th
StepBy(s, n) == [k \in 1..((Len(s) + n - 1) \div n) |-> s[(k - 1) * n + 1]]

\* iter.take(n)
Take(s, n) == Slice(s, 0, Min(n, Len(s)))

\* iter.flatten()
RECURSIVE Flatten(_)
Flatten(ss) == IF ss = << >> THEN << >> ELSE Head(ss) \o Flatten(Tail(ss))

\* The places (linear indices) of a vector in storage order: what slice.iter()
\* yields references to.
Places(tiles) == [k \in 1..Len(tiles) |-> k - 1]

\* The values behind a sequence of references into tiles.
Deref(tiles, refs) == [k \in 1..Len(refs) |-> At(tiles, refs[k])]

(***************************************************************************)
(* Construction: TryFrom<Vec<u32>> for SudokuGrid.                         *)
(***************************************************************************)
RECURSIVE Pow(_, _)
Pow(b, e) == IF e = 0 THEN 1 ELSE b * Pow(b, e - 1)

\* (tiles.len() as f64).powf(0.25) as usize: the truncated fourth root
FourthRoot(n) == CHOOSE w \in 0..n : Pow(w, 4) <= n /\ Pow(w + 1, 4) > n

\* try_from with the digit check written n < row_width
try_from_strict(tiles) ==
    LET cell_width == FourthRoot(Len(tiles))
        row_width == Pow(cell_width, 2)
    IN  IF Pow(cell_width, 4) # Len(tiles)
        THEN [tag |-> "NonSquare"]
        ELSE IF ~(\A k \in 1..Len(tiles) : tiles[k] < row_width)
        THEN [tag |-> "DigitOutOfRange"]
        ELSE [tag |-> "Ok",
              grid |-> [tiles |-> tiles, cell_width |-> cell_width, row_width |-> row_width]]

try_from(tiles) ==
    LET cell_width == FourthRoot(Len(tiles))
        row_width == Pow(cell_width, 2)
    IN  IF Pow(cell_width, 4) # Len(tiles)
        THEN [tag |-> "NonSquare"]
        ELSE IF ~(\A k \in 1..Len(tiles) : tiles[k] <= row_width)
        THEN [tag |-> "DigitOutOfRange"]
        ELSE [tag |-> "Ok",
              grid |-> [tiles |-> tiles, cell_width |-> cell_width, row_width |-> row_width]]

NoGrid == [tiles |-> << >>, cell_width |-> 0, row_width |-> 0]

(***************************************************************************)
(* Views of the grid.  Each *_refs operator gives the places the iterator  *)
(* yields references to, in order; the view itself is their values.        *)
(***************************************************************************)
iter_row_panics(g, row) == ~(row < g.row_width)

iter_row_refs(g, row) ==
    LET start == row * g.row_width
    IN  Slice(Places(g.tiles), start, start + g.row_width)

iter_row(g, row) == Deref(g.tiles, iter_row_refs(g, row))

iter_col_panics(g, col) == ~(col < g.row_width)

iter_col_refs(g, col) ==
    StepBy(Slice(Places(g.tiles), col, Len(g.tiles)), g.row_width)

iter_col(g, col) == Deref(g.tiles, iter_col_refs(g, col))

iter_cell_panics(g, row, col) == col >= g.row_width \/ row >= g.row_width

\* chunks_to_skip counting cell_width chunks per box row instead of row_width
chunks_to_skip_narrow(g, row, col) ==
    (row \div g.cell_width) * g.cell_width + col \div g.cell_width

chunks_to_skip(g, row, col) ==
    (row \div g.cell_width) * g.row_width + col \div g.cell_width

iter_cell_refs(g, row, col) ==
    Flatten(Take(StepBy(Skip(Chunks(Places(g.tiles), g.cell_width),
                             chunks_to_skip(g, row, col)),
                        g.cell_width),
                 g.cell_width))

iter_cell(g, row, col) == Deref(g.tiles, iter_cell_refs(g, row, col))

(***************************************************************************)
(* Coordinate access.  Index<(usize, usize)> names its tuple (row, col);   *)
(* IndexMut<(usize, usize)> names the same tuple (col, row).  Both then    *)
(* compute row * row_width + col from the names they chose.                *)
(***************************************************************************)
index_panics(g, first, second) ==
    LET row == first
        col == second
    IN  col >= g.row_width \/ row >= g.row_width

index_place(g, first, second) ==
    LET row == first
        col == second
    IN  row * g.row_width + col

index_mut_panics(g, first, second) ==
    LET col == first
        row == second
    IN  col >= g.row_width \/ row >= g.row_width

index_mut_place(g, first, second) ==
    LET col == first
        row == second
    IN  row * g.row_width + col

\* Index<usize> / IndexMut<usize>: bounds-checked Vec indexing
index_linear_panics(g, tileno) == ~(tileno < Len(g.tiles))

(***************************************************************************)
(* BitManip for u32.                                                       *)
(***************************************************************************)
\* 1 << n on a u32
Shl1(n) == {n % U32Bits}

\* *self |= 1 << n
set_bit(self, n) == self \cup Shl1(n)

\* (*self & (1 << n)) == (1 << n)
test_bit(self, n) == (self \cap Shl1(n)) = Shl1(n)

\* !bad
BitNot(self) == (0..(U32Bits - 1)) \ self

(***************************************************************************)
(* The solver.                                                             *)
(***************************************************************************)
RECURSIVE SetBits(_, _)
\* for n in view { bad.set_bit(*n); }
SetBits(bad, view) ==
    IF view = << >> THEN bad ELSE SetBits(set_bit(bad, Head(view)), Tail(view))

\* possible without the scan of the box
possible_no_cell(g, tileno) ==
    LET row == tileno \div g.row_width
        col == tileno % g.row_width
        bad1 == SetBits({}, iter_row(g, row))
        bad2 == SetBits(bad1, iter_col(g, col))
    IN  BitNot(bad2)

possible(g, tileno) ==
    LET row == tileno \div g.row_width
        col == tileno % g.row_width
        bad1 == SetBits({}, iter_row(g, row))
        bad2 == SetBits(bad1, iter_col(g, col))
        bad3 == SetBits(bad2, iter_cell(g, row, col))
    IN  BitNot(bad3)

\* possible() panics when one of the views it asks for panics
possible_panics(g, tileno) ==
    \/ g.row_width = 0
    \/ iter_row_panics(g, tileno \div g.row_width)
    \/ iter_col_panics(g, tileno % g.row_width)
    \/ iter_cell_panics(g, tileno \div g.row_width, tileno % g.row_width)

\* iter().position(|tile| *tile == 0) on a sequence: the 0-based position of
\* the first zero, or NoTile
Position0(s) ==
    IF \E k \in 1..Len(s) : s[k] = 0
    THEN (CHOOSE k \in 1..Len(s) : s[k] = 0 /\ \A j \in 1..(k - 1) : s[j] # 0) - 1
    ELSE NoTile

\* next_tile with the position mapped back by pos + tileno
next_tile_short(g, tileno) ==
    LET pos == Position0(Skip(g.tiles, tileno + 1))
    IN  IF pos = NoTile THEN NoTile ELSE pos + tileno

\* sudoku.iter().skip(tileno + 1).position(|tile| *tile == 0).map(|pos| pos + tileno + 1)
next_tile(g, tileno) ==
    LET pos == Position0(Skip(g.tiles, tileno + 1))
    IN  IF pos = NoTile THEN NoTile ELSE pos + tileno + 1

\* sudoku.iter().find(|tile| **tile == 0): the tile found (not its position)
find_zero(g) ==
    LET pos == Position0(g.tiles)
    IN  IF pos = NoTile THEN NoTile ELSE At(g.tiles, pos)

\* The frame of a solve_rec call on entry to its for loop.  num is where the
\* range iterator 1..=row_width stands.
Frame(g, tileno) ==
    [tileno |-> tileno,
     tries |-> possible(g, tileno),
     next_tile |-> next_tile(g, tileno),
     num |-> 1]

\* NextNum over the range reversed: the largest candidate first
NextNumDescending(g, f) ==
    LET cand == {d \in f.num..g.row_width : test_bit(f.tries, d)}
    IN  IF cand = {} THEN 0 ELSE CHOOSE d \in cand : \A e \in cand : d >= e

\* the next item of (1..=row_width).filter(|digit| tries.test_bit(*digit)),
\* or 0 when the iterator is exhausted
NextNum(g, f) ==
    LET cand == {d \in f.num..g.row_width : test_bit(f.tries, d)}
    IN  IF cand = {} THEN 0 ELSE CHOOSE d \in cand : \A e \in cand : d <= e

Top == stack[Len(stack)]
Pop == SubSeq(stack, 1, Len(stack) - 1)

(***************************************************************************)
(* Input vectors.                                                          *)
(***************************************************************************)
\* a solved 4x4 grid
BaseW == << 2, 1, 4, 3,
            4, 3, 2, 1,
            1, 2, 3, 4,
            3, 4, 1, 2 >>

\* BaseW with the tile at (1, 1) changed from 3 to 2: row 1 and column 1 now
\* hold 2 twice
BaseX == << 2, 1, 4, 3,
            4, 2, 2, 1,
            1, 2, 3, 4,
            3, 4, 1, 2 >>

Bases == {BaseW, BaseX}

\* the puzzle of bench_solve
BenchGrid == << 0, 0, 0, 0, 0, 0, 0, 0, 0,
                0, 0, 0, 0, 0, 3, 0, 8, 5,
                0, 0, 1, 0, 2, 0, 0, 0, 0,
                0, 0, 0, 5, 0, 7, 0, 0, 0,
                0, 0, 4, 0, 0, 0, 1, 0, 0,
                0, 9, 0, 0, 0, 0, 0, 0, 0,
                5, 0, 0, 0, 0, 0, 0, 7, 3,
                0, 0, 2, 0, 1, 0, 0, 0, 0,
                0, 0, 0, 0, 4, 0, 0, 0, 9 >>

\* a solved 9x9 grid: tile (r, c) holds ((3 * (r % 3) + r / 3 + c) % 9) + 1
Pattern9 ==
    [k \in 1..81 |->
        LET r == (k - 1) \div 9
            c == (k - 1) % 9
        IN  ((3 * (r % 3) + r \div 3 + c) % 9) + 1]

\* the tiles of b at the places in keep, 0 elsewhere
Mask(b, keep) == [k \in 1..Len(b) |-> IF (k - 1) \in keep THEN b[k] ELSE 0]

SparseKeeps == {K \in SUBSET (0..15) : Cardinality(K) <= MaxGivens}
DenseKeeps == {(0..15) \ B : B \in {K \in SUBSET (0..15) : Cardinality(K) <= MaxBlanks}}

\* len tiles, all fill except the one at place p (if there is one), which is v
Uniform(len, fill, p, v) == [k \in 1..len |-> IF k - 1 = p THEN v ELSE fill]

UniformInputs ==
    {Uniform(len, fill, p, v) : len \in 0..MaxLen, fill \in 0..MaxVal,
                                p \in 0..MaxLen, v \in 0..MaxVal}

MaskedInputs == {Mask(b, K) : b \in Bases, K \in SparseKeeps \cup DenseKeeps}

Inputs == UniformInputs \cup MaskedInputs

ViewInputs ==
    {BenchGrid, << >>, <<0>>, <<1>>}
        \cup {Mask(b, K) : b \in Bases, K \in DenseKeeps}
        \cup {Pattern9}
        \cup {Mask(Pattern9, (0..80) \ {p}) : p \in 0..80}

WriteInputs == {BaseW, Mask(BaseW, {0, 5, 10, 15}), <<0>>, << >>}

(***************************************************************************)
(* State.                                                                  *)
(***************************************************************************)
Out(op, a, b, v, panicked, refs, val, mask, pre) ==
    [op |-> op, a |-> a, b |-> b, v |-> v, panicked |-> panicked,
     refs |-> refs, val |-> val, mask |-> mask, pre |-> pre]

NoOut == Out("none", 0, 0, 0, FALSE, << >>, << >>, {}, << >>)

InitWith(inputs) ==
    /\ raw \in inputs
    /\ res = "none"
    /\ sudoku = NoGrid
    /\ stack = << >>
    /\ ret = "none"
    /\ state = "none"
    /\ out = NoOut
    /\ writes = 0

Init == InitWith(Inputs)

\* let sudoku: SudokuGrid = grid.try_into()
CanTryFrom == res = "none"

TryFrom ==
    /\ CanTryFrom
    /\ LET r == try_from(raw)
       IN  /\ res' = r.tag
           /\ sudoku' = IF r.tag = "Ok" THEN r.grid ELSE sudoku
    /\ UNCHANGED <<raw, stack, ret, state, out, writes>>

(***************************************************************************)
(* solve and solve_rec, one action per step of the recursion.              *)
(***************************************************************************)
\* calling solve_rec(g, tileno) from a caller whose stack is stk: the callee
\* computes tries and next_tile and stands at the head of its loop
Enter(g, tileno, stk) ==
    IF possible_panics(g, tileno)
    THEN /\ stack' = << >>
         /\ state' = "Panic"
    ELSE /\ stack' = Append(stk, Frame(g, tileno))
         /\ state' = state

CanSolve == res = "Ok" /\ state = "none" /\ stack = << >> /\ ret = "none"

Solve ==
    /\ CanSolve
    /\ LET first_zero == find_zero(sudoku)
       IN  IF first_zero # NoTile
           THEN Enter(sudoku, first_zero, stack)
           ELSE /\ state' = "Solved"
                /\ stack' = stack
    /\ UNCHANGED <<raw, res, sudoku, ret, out, writes>>

\* a solve_rec call is in its for loop
Running == stack # << >> /\ ret = "none" /\ state = "none"

CanPlace == Running /\ NextNum(sudoku, Top) # 0 /\ Top.next_tile # NoTile

\* loop body, a next tile exists: sudoku[tileno] = num; solve_rec(sudoku, nextno)
Place ==
    /\ CanPlace
    /\ LET f == Top
           num == NextNum(sudoku, f)
           g == [sudoku EXCEPT !.tiles = Put(@, f.tileno, num)]
       IN  /\ sudoku' = g
           /\ Enter(g, f.next_tile, Append(Pop, [f EXCEPT !.num = num + 1]))
    /\ UNCHANGED <<raw, res, ret, out, writes>>

CanComplete == Running /\ NextNum(sudoku, Top) # 0 /\ Top.next_tile = NoTile

\* loop body, no next tile: sudoku[tileno] = num; return Solved
Complete ==
    /\ CanComplete
    /\ sudoku' = [sudoku EXCEPT !.tiles = Put(@, Top.tileno, NextNum(sudoku, Top))]
    /\ stack' = Pop
    /\ ret' = "Solved"
    /\ UNCHANGED <<raw, res, state, out, writes>>

CanBacktrack == Running /\ NextNum(sudoku, Top) = 0

\* loop exhausted: sudoku[tileno] = 0; return UnSolved
Backtrack ==
    /\ CanBacktrack
    /\ sudoku' = [sudoku EXCEPT !.tiles = Put(@, Top.tileno, 0)]
    /\ stack' = Pop
    /\ ret' = "UnSolved"
    /\ UNCHANGED <<raw, res, state, out, writes>>

CanReturnSolved == stack # << >> /\ ret = "Solved"

\* the recursive call returned Solved: the caller returns Solved
ReturnSolved ==
    /\ CanReturnSolved
    /\ stack' = Pop
    /\ UNCHANGED <<raw, res, sudoku, ret, state, out, writes>>

CanReturnUnSolved == stack # << >> /\ ret = "UnSolved"

\* the recursive call returned UnSolved: the caller's loop goes on
ReturnUnSolved ==
    /\ CanReturnUnSolved
    /\ ret' = "none"
    /\ UNCHANGED <<raw, res, sudoku, stack, state, out, writes>>

CanSolveReturn == stack = << >> /\ ret # "none" /\ state = "none"

\* the outermost solve_rec returned: solve returns its value
SolveReturn ==
    /\ CanSolveReturn
    /\ state' = ret
    /\ ret' = "none"
    /\ UNCHANGED <<raw, res, sudoku, stack, out, writes>>

Next ==
    \/ TryFrom
    \/ Solve
    \/ Place
    \/ Complete
    \/ Backtrack
    \/ ReturnSolved
    \/ ReturnUnSolved
    \/ SolveReturn

Spec == Init /\ [][Next]_vars

(***************************************************************************)
(* The accessors of SudokuGrid as operations on a constructed grid.  Each  *)
(* records in out what it was asked and what it gave back.  An argument    *)
(* one past the valid range is included: the accessor panics on it.        *)
(***************************************************************************)
Coords == 0..sudoku.row_width

\* The read accessors are pure: a run makes one read, after construction or
\* after a write.
Fresh == out.op \in {"none", "index_mut"}

IterRow ==
    /\ res = "Ok"
    /\ Fresh
    /\ \E row \in Coords :
         out' = IF iter_row_panics(sudoku, row)
                THEN Out("iter_row", row, 0, 0, TRUE, << >>, << >>, {}, sudoku.tiles)
                ELSE Out("iter_row", row, 0, 0, FALSE, iter_row_refs(sudoku, row),
                         iter_row(sudoku, row), {}, sudoku.tiles)
    /\ UNCHANGED <<raw, res, sudoku, stack, ret, state, writes>>

IterCol ==
    /\ res = "Ok"
    /\ Fresh
    /\ \E col \in Coords :
         out' = IF iter_col_panics(sudoku, col)
                THEN Out("iter_col", col, 0, 0, TRUE, << >>, << >>, {}, sudoku.tiles)
                ELSE Out("iter_col", col, 0, 0, FALSE, iter_col_refs(sudoku, col),
                         iter_col(sudoku, col), {}, sudoku.tiles)
    /\ UNCHANGED <<raw, res, sudoku, stack, ret, state, writes>>

IterCell ==
    /\ res = "Ok"
    /\ Fresh
    /\ \E row \in Coords, col \in Coords :
         out' = IF iter_cell_panics(sudoku, row, col)
                THEN Out("iter_cell", row, col, 0, TRUE, << >>, << >>, {}, sudoku.tiles)
                ELSE Out("iter_cell", row, col, 0, FALSE, iter_cell_refs(sudoku, row, col),
                         iter_cell(sudoku, row, col), {}, sudoku.tiles)
    /\ UNCHANGED <<raw, res, sudoku, stack, ret, state, writes>>

\* let x = sudoku[(a, b)]
Index ==
    /\ res = "Ok"
    /\ Fresh
    /\ \E a \in Coords, b \in Coords :
         out' = IF index_panics(sudoku, a, b)
                THEN Out("index", a, b, 0, TRUE, << >>, << >>, {}, sudoku.tiles)
                ELSE Out("index", a, b, 0, FALSE, <<index_place(sudoku, a, b)>>,
                         <<At(sudoku.tiles, index_place(sudoku, a, b))>>, {}, sudoku.tiles)
    /\ UNCHANGED <<raw, res, sudoku, stack, ret, state, writes>>

\* let x = sudoku[tileno]
IndexLinear ==
    /\ res = "Ok"
    /\ Fresh
    /\ \E tileno \in 0..Len(sudoku.tiles) :
         out' = IF index_linear_panics(sudoku, tileno)
                THEN Out("index_linear", tileno, 0, 0, TRUE, << >>, << >>, {}, sudoku.tiles)
                ELSE Out("index_linear", tileno, 0, 0, FALSE, <<tileno>>,
                         <<At(sudoku.tiles, tileno)>>, {}, sudoku.tiles)
    /\ UNCHANGED <<raw, res, sudoku, stack, ret, state, writes>>

\* let tries = possible(&sudoku, tileno)
Possible ==
    /\ res = "Ok"
    /\ Fresh
    /\ \E tileno \in 0..Len(sudoku.tiles) :
         out' = IF possible_panics(sudoku, tileno)
                THEN Out("possible", tileno, 0, 0, TRUE, << >>, << >>, {}, sudoku.tiles)
                ELSE Out("possible", tileno, 0, 0, FALSE, << >>, << >>,
                         possible(sudoku, tileno), sudoku.tiles)
    /\ UNCHANGED <<raw, res, sudoku, stack, ret, state, writes>>

\* sudoku[(a, b)] = v
IndexMut ==
    /\ res = "Ok"
    /\ writes < MaxWrites
    /\ \E a \in Coords, b \in Coords, v \in 0..sudoku.row_width :
         IF index_mut_panics(sudoku, a, b)
         THEN /\ out' = Out("index_mut", a, b, v, TRUE, << >>, << >>, {}, sudoku.tiles)
              /\ sudoku' = sudoku
         ELSE /\ out' = Out("index_mut", a, b, v, FALSE, <<index_mut_place(sudoku, a, b)>>,
                            << >>, {}, sudoku.tiles)
              /\ sudoku' = [sudoku EXCEPT !.tiles = Put(@, index_mut_place(sudoku, a, b), v)]
    /\ writes' = writes + 1
    /\ UNCHANGED <<raw, res, stack, ret, state>>

ViewInit == InitWith(ViewInputs)

ViewNext ==
    \/ TryFrom
    \/ IterRow
    \/ IterCol
    \/ IterCell
    \/ Index
    \/ IndexLinear
    \/ Possible

ViewSpec == ViewInit /\ [][ViewNext]_vars

WriteInit == InitWith(WriteInputs)

WriteNext ==
    \/ TryFrom
    \/ IndexMut
    \/ Index
    \/ IndexLinear

WriteSpec == WriteInit /\ [][WriteNext]_vars

(***************************************************************************)
(* Sudoku rules, stated on linear indices independently of the grid's      *)
(* iterators.                                                              *)
(***************************************************************************)
RowIdx(rw, r) == {r * rw + c : c \in 0..(rw - 1)}
ColIdx(rw, c) == {r * rw + c : r \in 0..(rw - 1)}
BoxIdx(cw, rw, br, bc) ==
    {(br * cw + dr) * rw + bc * cw + dc : dr \in 0..(cw - 1), dc \in 0..(cw - 1)}

Units(cw, rw) ==
    {RowIdx(rw, r) : r \in 0..(rw - 1)}
        \cup {ColIdx(rw, c) : c \in 0..(rw - 1)}
        \cup {BoxIdx(cw, rw, br, bc) : br \in 0..(cw - 1), bc \in 0..(cw - 1)}

\* no tile is 0 and every row, column and box holds each digit exactly once
ValidFull(t, cw, rw) ==
    /\ \A k \in 1..Len(t) : t[k] # 0
    /\ \A U \in Units(cw, rw) :
         \A d \in 1..rw : Cardinality({i \in U : At(t, i) = d}) = 1

\* some non-zero digit occurs twice in one row, column or box
Contradictory(t, cw, rw) ==
    \E U \in Units(cw, rw) :
        \E i \in U, j \in U : i # j /\ At(t, i) # 0 /\ At(t, i) = At(t, j)

HasEmpty(t) == \E k \in 1..Len(t) : t[k] = 0

\* All solved grids of cell width cw, built row by row from permutations.
Perms(rw) == {p \in [1..rw -> 1..rw] : \A i \in 1..rw, j \in 1..rw : i # j => p[i] # p[j]}

RowFits(rs, p, cw, rw) ==
    \A j \in 1..Len(rs) :
        /\ \A c \in 1..rw : rs[j][c] # p[c]
        /\ (j - 1) \div cw = Len(rs) \div cw =>
              \A c1 \in 1..rw, c2 \in 1..rw :
                  (c1 - 1) \div cw = (c2 - 1) \div cw => rs[j][c1] # p[c2]

RECURSIVE RowStacks(_, _, _)
RowStacks(cw, rw, k) ==
    IF k = 0 THEN {<< >>}
    ELSE UNION {{Append(rs, p) : p \in {q \in Perms(rw) : RowFits(rs, q, cw, rw)}} :
                    rs \in RowStacks(cw, rw, k - 1)}

SolvedGridsOf(cw) ==
    {t \in {Flatten(rs) : rs \in RowStacks(cw, cw * cw, cw * cw)} :
        ValidFull(t, cw, cw * cw)}

SolvedGrids0 == SolvedGridsOf(0)
SolvedGrids1 == SolvedGridsOf(1)
SolvedGrids2 == SolvedGridsOf(2)

SolvedGrids(cw) ==
    CASE cw = 0 -> SolvedGrids0
      [] cw = 1 -> SolvedGrids1
      [] cw = 2 -> SolvedGrids2

\* the valid completions of the input t: solved grids that keep every
\* non-zero tile of t
Completions(t, cw) ==
    {s \in SolvedGrids(cw) : \A k \in 1..Len(t) : t[k] # 0 => s[k] = t[k]}

\* s comes before t, or is t, comparing tile by tile in linear order
LexLeq(s, t) ==
    \/ s = t
    \/ \E k \in 1..Len(s) : s[k] < t[k] /\ \A j \in 1..(k - 1) : s[j] = t[j]

LexMin(S) == CHOOSE s \in S : \A t \in S : LexLeq(s, t)

Returned == state \in {"Solved", "UnSolved", "Panic"}

(***************************************************************************)
(* The claims.                                                             *)
(***************************************************************************)

\* C1: for every accepted input with exactly one valid completion, solve
\* reports Solved and leaves the grid equal to that completion, wherever the
\* given digits stand (a given digit at linear index 0 included).
C1_UniqueCompletionSolved ==
    (res = "Ok" /\ Returned /\ Cardinality(Completions(raw, sudoku.cell_width)) = 1)
        => /\ state = "Solved"
           /\ sudoku.tiles \in Completions(raw, sudoku.cell_width)

\* C2: whenever solve reports Solved, the final grid has no 0 tile and every
\* row, column and box holds each digit 1..row_width exactly once.
C2_SolvedIsValid ==
    state = "Solved" => ValidFull(sudoku.tiles, sudoku.cell_width, sudoku.row_width)

\* C3: whenever solve reports UnSolved, the grid's tiles equal the input tiles
\* at every linear index.
C3_UnsolvedReverts ==
    state = "UnSolved" => sudoku.tiles = raw

\* C4: for an accepted input with at least one empty tile whose given digits
\* are contradictory, solve reports UnSolved.
C4_ContradictoryUnsolved ==
    (res = "Ok" /\ Returned /\ HasEmpty(raw)
        /\ Contradictory(raw, sudoku.cell_width, sudoku.row_width))
        => state = "UnSolved"

\* C5: every recursive call of solve_rec is at a linear index strictly greater
\* than its caller's and below the number of tiles, each call tries at most
\* row_width digits, no call indexes outside the grid (no panic), and solve
\* terminates with Solved or UnSolved.
C5_CallsInRange ==
    /\ state # "Panic"
    /\ \A k \in 1..Len(stack) :
         /\ stack[k].tileno < Len(sudoku.tiles)
         /\ stack[k].num \in 1..(sudoku.row_width + 1)
         /\ stack[k].next_tile # NoTile =>
               stack[k].next_tile > stack[k].tileno /\ stack[k].next_tile < Len(sudoku.tiles)
         /\ k > 1 => /\ stack[k].tileno > stack[k - 1].tileno
                     /\ stack[k].tileno = stack[k - 1].next_tile

C5_Done == res \in {"NonSquare", "DigitOutOfRange"} \/ state \in {"Solved", "UnSolved"}

\* Until solve has returned, the guard of some step holds.
C5_NotStuck ==
    \/ C5_Done
    \/ CanTryFrom
    \/ CanSolve
    \/ CanPlace
    \/ CanComplete
    \/ CanBacktrack
    \/ CanReturnSolved
    \/ CanReturnUnSolved
    \/ CanSolveReturn

\* A rank that every step raises.  Its phases: not constructed, constructed,
\* searching, unwinding after Solved, outermost call returned, solve returned.
\* While searching, the rank is the vector over the call stack of where each
\* call's loop stands (waiting for its callee, callee returned, at the head
\* of the loop), ordered lexicographically.
C5_Phase ==
    IF res = "none" THEN 0
    ELSE IF C5_Done \/ state # "none" THEN 5
    ELSE IF stack = << >> THEN (IF ret = "none" THEN 1 ELSE 4)
    ELSE IF ret = "Solved" THEN 3
    ELSE 2

C5_Vector ==
    [k \in 1..Len(stack) |->
        IF k < Len(stack) THEN 3 * stack[k].num - 2
        ELSE IF ret = "UnSolved" THEN 3 * stack[k].num - 1
        ELSE 3 * stack[k].num]

C5_Entry(v, k) == IF k <= Len(v) THEN v[k] ELSE 0

C5_VectorLess(v, w) ==
    \E k \in 1..Len(w) :
        /\ C5_Entry(v, k) < w[k]
        /\ \A j \in 1..(k - 1) : C5_Entry(v, j) = w[j]

C5_Progress ==
    \/ C5_Phase < C5_Phase'
    \/ C5_Phase = 2 /\ C5_Phase' = 2 /\ C5_VectorLess(C5_Vector, C5_Vector')
    \/ C5_Phase = 3 /\ C5_Phase' = 3 /\ Len(stack') < Len(stack)

\* C5: the calls stay in range, solve is never stuck before it returns, and
\* every step raises the rank: solve terminates with Solved or UnSolved.
C5_Terminates == [](C5_CallsInRange /\ C5_NotStuck) /\ [][C5_Progress]_vars

C5_Witness ==
    /\ state = "UnSolved"
    /\ Len(raw) = 16
    /\ raw[1] = 0
    /\ Cardinality({k \in 1..16 : raw[k] = 0}) >= 12

\* C6: the digits d in 1..row_width whose bit is set in possible(grid, i) are
\* exactly those of 1..row_width that occur neither in the row, nor in the
\* column, nor in the box of i (row = i / row_width, col = i % row_width).
C6_Excluded(t, cw, rw, i) ==
    LET row == i \div rw
        col == i % rw
    IN  {At(t, j) : j \in RowIdx(rw, row) \cup ColIdx(rw, col)
                            \cup BoxIdx(cw, rw, row \div cw, col \div cw)}

\* C6: the candidate digits of possible(grid, i) are 1..row_width minus the
\* values in the row, column and box of i.
C6_PossibleIsComplement ==
    (out.op = "possible" /\ ~out.panicked)
        => {d \in 1..sudoku.row_width : d \in out.mask}
              = (1..sudoku.row_width)
                    \ C6_Excluded(sudoku.tiles, sudoku.cell_width, sudoku.row_width, out.a)

C6_Witness ==
    /\ out.op = "possible"
    /\ ~out.panicked
    /\ raw = BenchGrid
    /\ out.a = 40
    /\ {d \in 1..9 : d \in out.mask} = {3, 6, 8, 9}

\* C7: construction fails with NonSquare whenever the length is not a perfect
\* fourth power, whatever the values; fails with DigitOutOfRange when the
\* length is w^4 and some value exceeds w^2; otherwise succeeds with
\* cell_width = w, row_width = w^2 and the tiles stored unchanged.  Every
\* constructed grid has tiles.length = cell_width^4 = row_width^2 and every
\* value in 0..row_width.
C7_Roots(n) == {w \in 0..n : w * w * w * w = n}

\* C7: the outcome of construction is decided by the length and the values
\* as stated above.
C7_Construction ==
    /\ res # "none" =>
         /\ C7_Roots(Len(raw)) = {} => res = "NonSquare"
         /\ \A w \in C7_Roots(Len(raw)) :
              IF \E k \in 1..Len(raw) : raw[k] > w * w
              THEN res = "DigitOutOfRange"
              ELSE /\ res = "Ok"
                   /\ sudoku.cell_width = w
                   /\ sudoku.row_width = w * w
                   /\ (stack = << >> /\ ret = "none" /\ state = "none") => sudoku.tiles = raw
    /\ res = "Ok" =>
         /\ Len(sudoku.tiles) = sudoku.cell_width * sudoku.cell_width
                                    * sudoku.cell_width * sudoku.cell_width
         /\ Len(sudoku.tiles) = sudoku.row_width * sudoku.row_width
         /\ \A k \in 1..Len(sudoku.tiles) : sudoku.tiles[k] \in 0..sudoku.row_width

C7_Witness ==
    /\ res = "DigitOutOfRange"
    /\ Len(raw) = 16
    /\ raw[16] = 5

\* C8: for every in-range (row, col), the coordinate read and the coordinate
\* write both address linear index row * row_width + col: the write changes
\* that tile to v and no other, and the read returns the tile there.
C8_CoordinateAccess ==
    /\ (out.op = "index" /\ ~out.panicked)
         => out.val = <<At(sudoku.tiles, out.a * sudoku.row_width + out.b)>>
    /\ (out.op = "index_mut" /\ ~out.panicked)
         => sudoku.tiles = Put(out.pre, out.a * sudoku.row_width + out.b, out.v)

\* C9: iter_cell(row, col) yields exactly cell_width^2 values, those at
\* linear indices r * row_width + c for r, c in the box of (row, col), r
\* ascending then c ascending; the tile (row, col) is among them and the grid
\* is not changed.
C9_BoxPlaces(cw, rw, row, col) ==
    [k \in 1..(cw * cw) |->
        ((row \div cw) * cw + ((k - 1) \div cw)) * rw + (col \div cw) * cw + ((k - 1) % cw)]

\* C9: iter_cell yields the box of (row, col) in row-major order and leaves
\* the grid unchanged.
C9_IterCell ==
    (out.op = "iter_cell" /\ ~out.panicked)
        => LET places == C9_BoxPlaces(sudoku.cell_width, sudoku.row_width, out.a, out.b)
           IN  /\ out.refs = places
               /\ Len(out.val) = sudoku.cell_width * sudoku.cell_width
               /\ out.val = [k \in 1..Len(places) |-> At(out.pre, places[k])]
               /\ \E k \in 1..Len(out.refs) : out.refs[k] = out.a * sudoku.row_width + out.b
               /\ sudoku.tiles = out.pre

C9_Witness ==
    /\ out.op = "iter_cell"
    /\ ~out.panicked
    /\ raw = BenchGrid
    /\ out.a = 4
    /\ out.b = 7
    /\ out.val = <<0, 0, 0, 1, 0, 0, 0, 0, 0>>

\* C10: for every accepted input whose tile at linear index 0 is empty and
\* which has at least one valid completion, solve reports Solved and the
\* final grid is the lexicographically smallest valid completion of the
\* input; so the outcome and the final grid are a function of the input.
C10_LexSmallest ==
    (res = "Ok" /\ Returned /\ Len(raw) > 0 /\ raw[1] = 0
        /\ Completions(raw, sudoku.cell_width) # {})
        => /\ state = "Solved"
           /\ sudoku.tiles = LexMin(Completions(raw, sudoku.cell_width))

C10_Witness ==
    /\ state = "Solved"
    /\ Len(raw) = 16
    /\ raw[1] = 0
    /\ Cardinality(Completions(raw, 2)) >= 3
    /\ sudoku.tiles = LexMin(Completions(raw, 2))
    /\ sudoku.tiles # BaseW

====
